---- MODULE Spec2Model ----
(***************************************************************************)
(* The threaded read/write pipeline of backy2's data backends:             *)
(*   src/src/backy2/data_backends/__init__.py  (base class DataBackend)    *)
(*   src/src/backy2/data_backends/null.py      (the null DataBackend)      *)
(*                                                                         *)
(* The state is one null.DataBackend instance after __init__, its writer   *)
(* and reader threads, and one calling thread.  The instance's methods are *)
(* those of null.py; the base class's save/read/read_get are modelled as   *)
(* explicit calls of the base-class functions on the same instance.        *)
(*                                                                         *)
(* Spec          every operation, small numbers of reads, saves and closes *)
(* SpecShutdown  the pipeline, the latch and close() alone                 *)
(* SpecQueues    reads until the result queue is full, then close() until  *)
(*               the write queue is full                                   *)
(* FairBulkSpec  enough reads to fill the result queue, then close(),      *)
(*               under fair scheduling of the threads                      *)
(* SpecSaves     one save more than the write queue has room for           *)
(* SpecReads     reads of distinct blocks in a known order, read_get, the  *)
(*               latch and close(); FairSpecReads is the same under fair   *)
(*               scheduling                                                *)
(***************************************************************************)
EXTENDS Integers, Sequences, FiniteSets, TLC

\* ---------------------------------------------------------------- bounds
MaxWriters == 2
MaxReaders == 2
MaxBlockId == 2
MaxSaves == 1
MaxReads == 2
MaxCloses == 2
default_block_size == 1

\* ------------------------------------------------------ program constants
STATUS_NOTHING == 0
STATUS_READING == 1
STATUS_WRITING == 2
STATUS_THROTTLING == 3
WRITE_QUEUE_LENGTH == 20
READ_QUEUE_LENGTH == 20

\* ------------------------------------------------------------ Python values
None == [type |-> "NoneType"]
Unset == [type |-> "unbound"]
Block(i, u) == [type |-> "Block", id |-> i, uid |-> u]
Bytes(v, n) == [type |-> "bytes", val |-> v, len |-> n]
Uid(n) == [type |-> "uid", n |-> n]
Exc(name) == [type |-> "exception", name |-> name]
FatalErr == Exc("FatalError")

Payloads == {Bytes("p0", 0), Bytes("p1", 1)}
BlockIds == 1..MaxBlockId

VARIABLES
    simultaneous_writes,    \* config: number of writer threads
    simultaneous_reads,     \* config: number of reader threads
    write_queue,            \* self._write_queue      (bounded)
    read_queue,             \* self._read_queue       (unbounded)
    read_data_queue,        \* self._read_data_queue  (bounded)
    writer_thread_status,   \* self.writer_thread_status[i]
    reader_thread_status,   \* self.reader_thread_status[i]
    fatal_error,            \* self.fatal_error
    wpc,                    \* position of each writer thread
    rpc,                    \* position of each reader thread
    rblock,                 \* local `block` of each reader thread
    rdata,                  \* local `data` of each reader thread
    cpc,                    \* position of the calling thread
    ci,                     \* index of the calling thread inside close() and thread_status()
    result,                 \* outcome of the calling thread's last completed call
    saved,                  \* history: uid -> payload handed to save()
    nreads,                 \* history: number of read() calls made
    ncloses,                \* history: number of close() calls that returned
    closing,                \* history: number of close() calls started
    nwput,                  \* history: number of sentinels close() has put on write_queue
    returned,               \* history: ids of the blocks read_get() returned, in return order
    wjobs,                  \* history: uid number -> how far the WriteJob that save()
                            \* enqueued has got: "queued", "taken", "written", "drained"
    wentry                  \* local `entry` of each writer thread

vars == <<simultaneous_writes, simultaneous_reads, write_queue, read_queue,
          read_data_queue, writer_thread_status, reader_thread_status,
          fatal_error, wpc, rpc, rblock, rdata, cpc, ci, result,
          saved, nreads, ncloses, closing, nwput, returned, wjobs, wentry>>

Writers == 0..(simultaneous_writes - 1)
Readers == 0..(simultaneous_reads - 1)

\* null.py:48-49
write_queue_length == simultaneous_writes + WRITE_QUEUE_LENGTH
read_queue_length == simultaneous_reads + READ_QUEUE_LENGTH

\* The outcome of a call: exc = "" for a normal return of val, "pending" while
\* the call has not returned, otherwise the name of the exception raised.  arg
\* is the block a read was called with; others tells which reads were
\* outstanding when the call was made ("none", "same_id": only reads of blocks
\* with the argument's id, "other_id": a read of a block with another id);
\* latched tells whether fatal_error was set when the call was made.
Outcome(op, exc, val, arg, others, latched) ==
    [op |-> op, exc |-> exc, val |-> val, arg |-> arg, others |-> others, latched |-> latched]

NoResult == Outcome("", "", None, None, "none", FALSE)

\* Python truthiness of self.fatal_error (None is falsy, an exception object truthy)
Truthy(v) == v # None

\* ---------------------------------------------------------------- __init__
Init ==
    /\ simultaneous_writes \in 1..MaxWriters
    /\ simultaneous_reads \in 1..MaxReaders
    /\ write_queue = <<>>
    /\ read_queue = <<>>
    /\ read_data_queue = <<>>
    /\ writer_thread_status = [w \in Writers |-> STATUS_NOTHING]
    /\ reader_thread_status = [r \in Readers |-> STATUS_NOTHING]
    /\ fatal_error = None
    /\ wpc = [w \in Writers |-> "get"]
    /\ rpc = [r \in Readers |-> "get"]
    /\ rblock = [r \in Readers |-> Unset]
    /\ rdata = [r \in Readers |-> Unset]
    /\ cpc = "idle"
    /\ ci = 0
    /\ result = NoResult
    /\ saved = <<>>
    /\ nreads = 0
    /\ ncloses = 0
    /\ closing = 0
    /\ nwput = 0
    /\ returned = <<>>
    /\ wjobs = <<>>
    /\ wentry = [w \in Writers |-> Unset]

\* ------------------------------------------------------------- the medium
\* backy2.utils.generate_block(block_id, block_size): the null medium's data
\* for a block, a function of the block's id alone (all blocks have the
\* configured default size here).
generate_block(block_id) == Bytes(<<"generated", block_id>>, default_block_size)

\* What the medium's read primitive can answer beyond data: the uid is absent
\* (None), or the primitive raises.
MediumAbsent == None
MediumFailure == Exc("MediumError")

\* null.py read_raw: the outcomes of the medium's read primitive for a block
read_raw(block) == {generate_block(block.id), MediumAbsent, MediumFailure}

\* ---------------------------------------------------------- writer threads
\* null.py:75  `if entry is None or self.fatal_error:`
WriterFinishes(entry) == entry = None \/ Truthy(fatal_error)

\* null.py:74: entry = self._write_queue.get(); the call returns with the
\* queue's lock released, before line 75 looks at the latch.
WriterGet(w) ==
    /\ wpc[w] = "get"
    /\ write_queue # <<>>
    /\ write_queue' = Tail(write_queue)
    /\ wentry' = [wentry EXCEPT ![w] = Head(write_queue)]
    /\ wpc' = [wpc EXCEPT ![w] = "test"]
    /\ UNCHANGED <<simultaneous_writes, simultaneous_reads, read_queue, read_data_queue,
                   writer_thread_status, reader_thread_status, fatal_error, rpc, rblock,
                   rdata, cpc, ci, result, saved, nreads, ncloses, closing,
                   nwput, returned, wjobs>>

\* null.py:75-78: the test of the entry and of the latch as it is now.  No
\* entry other than the sentinel ever unpacks into `uid, data`: the only
\* producer of jobs, the base-class save, enqueues 3-tuples (uid, data,
\* callback), so line 78 raises ValueError and the thread dies with its
\* status slot unchanged and without task_done().
WriterTest(w) ==
    /\ wpc[w] = "test"
    /\ wpc' = [wpc EXCEPT ![w] = IF WriterFinishes(wentry[w]) THEN "finished"
                                 ELSE "died_ValueError"]
    /\ UNCHANGED <<simultaneous_writes, simultaneous_reads, write_queue, read_queue,
                   read_data_queue, writer_thread_status, reader_thread_status,
                   fatal_error, rpc, rblock, rdata, cpc, ci, result, saved, nreads,
                   ncloses, closing, nwput, returned, wjobs, wentry>>

\* ---------------------------------------------------------- reader threads
\* The reader's test without the latch
ReaderFinishesNoLatch(block) == block = None

\* null.py:99  `if block is None or self.fatal_error:`
ReaderFinishes(block) == block = None \/ Truthy(fatal_error)

\* A get that leaves the entry on the read queue
ReaderGetPeek(r) ==
    /\ rpc[r] = "get"
    /\ read_queue # <<>>
    /\ read_queue' = read_queue
    /\ rblock' = [rblock EXCEPT ![r] = Head(read_queue)]
    /\ rpc' = [rpc EXCEPT ![r] = "test"]
    /\ UNCHANGED <<simultaneous_writes, simultaneous_reads, write_queue, read_data_queue,
                   writer_thread_status, reader_thread_status, fatal_error, wpc, rdata,
                   cpc, ci, result, saved, nreads, ncloses, closing,
                   nwput, returned, wjobs, wentry>>

\* null.py:98: block = self._read_queue.get(); the call returns with the
\* queue's lock released, before line 99 looks at the latch.
ReaderGet(r) ==
    /\ rpc[r] = "get"
    /\ read_queue # <<>>
    /\ read_queue' = Tail(read_queue)
    /\ rblock' = [rblock EXCEPT ![r] = Head(read_queue)]
    /\ rpc' = [rpc EXCEPT ![r] = "test"]
    /\ UNCHANGED <<simultaneous_writes, simultaneous_reads, write_queue, read_data_queue,
                   writer_thread_status, reader_thread_status, fatal_error, wpc, rdata,
                   cpc, ci, result, saved, nreads, ncloses, closing,
                   nwput, returned, wjobs, wentry>>

\* null.py:99-101: the test of the block and of the latch as it is now; the
\* reader stops on the sentinel or a latched error.
ReaderTest(r) ==
    /\ rpc[r] = "test"
    /\ rpc' = [rpc EXCEPT ![r] = IF ReaderFinishes(rblock[r]) THEN "finished" ELSE "mark"]
    /\ UNCHANGED <<simultaneous_writes, simultaneous_reads, write_queue, read_queue,
                   read_data_queue, writer_thread_status, reader_thread_status,
                   fatal_error, wpc, rblock, rdata, cpc, ci, result, saved, nreads,
                   ncloses, closing, nwput, returned, wjobs, wentry>>

\* null.py:103: the slot becomes READING
ReaderMark(r) ==
    /\ rpc[r] = "mark"
    /\ reader_thread_status' = [reader_thread_status EXCEPT ![r] = STATUS_READING]
    /\ rpc' = [rpc EXCEPT ![r] = "read_raw"]
    /\ UNCHANGED <<simultaneous_writes, simultaneous_reads, write_queue, read_queue,
                   read_data_queue, writer_thread_status, fatal_error, wpc, rblock, rdata,
                   cpc, ci, result, saved, nreads, ncloses, closing,
                   nwput, returned, wjobs, wentry>>

\* null.py:104-106: data = self.read_raw(...); an exception of the medium
\* propagates out of the thread (status stays READING); otherwise the slot
\* becomes THROTTLING and len(data) is evaluated, which raises TypeError for
\* data = None (status stays THROTTLING).
ReaderReadRaw(r) ==
    /\ rpc[r] = "read_raw"
    /\ \E out \in read_raw(rblock[r]) :
        IF out = MediumFailure
          THEN /\ rpc' = [rpc EXCEPT ![r] = "died_MediumError"]
               /\ UNCHANGED <<rdata, reader_thread_status>>
          ELSE /\ rdata' = [rdata EXCEPT ![r] = out]
               /\ reader_thread_status' = [reader_thread_status EXCEPT ![r] = STATUS_THROTTLING]
               /\ rpc' = [rpc EXCEPT ![r] = IF out = None THEN "died_TypeError" ELSE "sleep"]
    /\ UNCHANGED <<simultaneous_writes, simultaneous_reads, write_queue, read_queue,
                   read_data_queue, writer_thread_status, fatal_error, wpc, rblock, cpc,
                   ci, result, saved, nreads, ncloses, closing, nwput, returned, wjobs, wentry>>

\* null.py:106-107: the throttle's sleep ends, the slot becomes NOTHING.
ReaderSleep(r) ==
    /\ rpc[r] = "sleep"
    /\ reader_thread_status' = [reader_thread_status EXCEPT ![r] = STATUS_NOTHING]
    /\ rpc' = [rpc EXCEPT ![r] = "put"]
    /\ UNCHANGED <<simultaneous_writes, simultaneous_reads, write_queue, read_queue,
                   read_data_queue, writer_thread_status, fatal_error, wpc, rblock, rdata,
                   cpc, ci, result, saved, nreads, ncloses, closing,
                   nwput, returned, wjobs, wentry>>

\* A put on the result queue that does not wait for room
ReaderPutUnbounded(r) ==
    /\ rpc[r] = "put"
    /\ read_data_queue' = Append(read_data_queue, [block |-> rblock[r], data |-> rdata[r]])
    /\ rpc' = [rpc EXCEPT ![r] = "get"]
    /\ rblock' = [rblock EXCEPT ![r] = Unset]
    /\ rdata' = [rdata EXCEPT ![r] = Unset]
    /\ UNCHANGED <<simultaneous_writes, simultaneous_reads, write_queue, read_queue,
                   writer_thread_status, reader_thread_status, fatal_error, wpc, cpc, ci,
                   result, saved, nreads, ncloses, closing, nwput, returned, wjobs, wentry>>

\* null.py:109-111: self._read_data_queue.put((block, data)) blocks while the
\* bounded queue is full; then the next loop iteration.
ReaderPut(r) ==
    /\ rpc[r] = "put"
    /\ Len(read_data_queue) < read_queue_length
    /\ read_data_queue' = Append(read_data_queue, [block |-> rblock[r], data |-> rdata[r]])
    /\ rpc' = [rpc EXCEPT ![r] = "get"]
    /\ rblock' = [rblock EXCEPT ![r] = Unset]
    /\ rdata' = [rdata EXCEPT ![r] = Unset]
    /\ UNCHANGED <<simultaneous_writes, simultaneous_reads, write_queue, read_queue,
                   writer_thread_status, reader_thread_status, fatal_error, wpc, cpc, ci,
                   result, saved, nreads, ncloses, closing, nwput, returned, wjobs, wentry>>

\* null.py:98-109: a running reader holds a block from the get() that
\* returned it until it has put its result
Holding(r) ==
    /\ rpc[r] \in {"test", "mark", "read_raw", "sleep", "put"}
    /\ rblock[r].type = "Block"

\* --------------------------------------------------------- calling thread
\* Ids of the blocks whose read is outstanding: requested and not yet
\* returned to a caller (queued, held by a running reader, or completed and
\* waiting in the result queue).
OutstandingIds ==
    {read_queue[i].id : i \in {j \in 1..Len(read_queue) : read_queue[j] # None}}
    \cup {rblock[r].id : r \in {q \in Readers : Holding(q)}}
    \cup {read_data_queue[i].block.id : i \in 1..Len(read_data_queue)}

Others(block) ==
    IF OutstandingIds = {} THEN "none"
    ELSE IF OutstandingIds = {block.id} THEN "same_id"
    ELSE "other_id"

\* Blocks a caller can ask for.  The orchestration layer gives a block its
\* uid once, at write time: the block with id i carries the uid of the i-th
\* save, and uid 0, which save never returns, while that save has not happened.
UidOf(i) == IF i <= Len(saved) THEN Uid(i) ELSE Uid(0)
Blocks == {Block(i, UidOf(i)) : i \in BlockIds}

\* null.py:119-126 _uid(): a fresh identifier on every call
NewUid == Uid(Len(saved) + 1)

\* Python's len() of a bytes value
len(data) == data.len

\* The _sync argument of a save call, as the arg of its outcome
Sync(flag) == [type |-> "bool", val |-> flag]

\* null.py:129-134 save(data, _sync): raises the latched error, else returns a
\* fresh uid; nothing is put on the write queue (line 133: "Don't save
\* anything") and _sync is ignored, so the call neither blocks nor joins, and
\* wjobs gets no entry for the uid.
Save(data, sync) ==
    /\ cpc = "idle"
    /\ IF Truthy(fatal_error)
         THEN /\ result' = Outcome("save", fatal_error.name, None, Sync(sync), "none", TRUE)
              /\ UNCHANGED saved
         ELSE /\ saved' = Append(saved, data)
              /\ result' = Outcome("save", "", NewUid, Sync(sync), "none", FALSE)
    /\ UNCHANGED <<simultaneous_writes, simultaneous_reads, write_queue, read_queue,
                   read_data_queue, writer_thread_status, reader_thread_status,
                   fatal_error, wpc, rpc, rblock, rdata, cpc, ci, nreads, ncloses, closing,
                   nwput, returned, wjobs, wentry>>

\* null.py:129 save(self, data, _sync=False) has no callback parameter: a call
\* save(data, callback=f) raises TypeError before the body runs.
SaveCallback(data) ==
    /\ cpc = "idle"
    /\ result' = Outcome("save_callback", "TypeError", None, None, "none", Truthy(fatal_error))
    /\ UNCHANGED <<simultaneous_writes, simultaneous_reads, write_queue, read_queue,
                   read_data_queue, writer_thread_status, reader_thread_status,
                   fatal_error, wpc, rpc, rblock, rdata, cpc, ci, saved, nreads,
                   ncloses, closing, nwput, returned, wjobs, wentry>>

\* __init__.py:31-39 save called on the instance: line 33 reads
\* self.last_exception, an attribute that nothing defines, so the call raises
\* AttributeError before a uid is made or anything is enqueued.
BaseSave(data) ==
    /\ cpc = "idle"
    /\ result' = Outcome("base_save", "AttributeError", None, None, "none", Truthy(fatal_error))
    /\ UNCHANGED <<simultaneous_writes, simultaneous_reads, write_queue, read_queue,
                   read_data_queue, writer_thread_status, reader_thread_status,
                   fatal_error, wpc, rpc, rblock, rdata, cpc, ci, saved, nreads,
                   ncloses, closing, nwput, returned, wjobs, wentry>>

\* null.py:149-155 read(block, sync): enqueues the block; with sync, line 152
\* reads the local rblock before line 154 assigns it: UnboundLocalError.
Read(block, sync) ==
    /\ cpc = "idle"
    /\ read_queue' = Append(read_queue, block)
    /\ nreads' = nreads + 1
    /\ result' = IF sync
                   THEN Outcome("read_sync", "UnboundLocalError", None, block,
                                Others(block), Truthy(fatal_error))
                   ELSE Outcome("read", "", None, block, Others(block), Truthy(fatal_error))
    /\ UNCHANGED <<simultaneous_writes, simultaneous_reads, write_queue,
                   read_data_queue, writer_thread_status, reader_thread_status,
                   fatal_error, wpc, rpc, rblock, rdata, cpc, ci, saved, ncloses, closing,
                   nwput, returned, wjobs, wentry>>

\* __init__.py:49-57 read(block, sync) called on the instance: enqueues the
\* block; with sync it goes on to self.read_get(), which is null.py's.
BaseRead(block, sync) ==
    /\ cpc = "idle"
    /\ read_queue' = Append(read_queue, block)
    /\ nreads' = nreads + 1
    /\ IF sync
         THEN /\ cpc' = "base_read"
              /\ result' = Outcome("base_read_sync", "pending", None, block,
                                   Others(block), Truthy(fatal_error))
         ELSE /\ cpc' = cpc
              /\ result' = Outcome("base_read", "", None, block, Others(block),
                                   Truthy(fatal_error))
    /\ UNCHANGED <<simultaneous_writes, simultaneous_reads, write_queue,
                   read_data_queue, writer_thread_status, reader_thread_status,
                   fatal_error, wpc, rpc, rblock, rdata, ci, saved, ncloses, closing,
                   nwput, returned, wjobs, wentry>>

\* null.py:158-163 read_get(): what the call does with the entry it dequeues.
\* No check of fatal_error; len(data) raises TypeError for data = None (the
\* entry is already off the queue).
read_get(entry, call) ==
    IF entry.data = None
      THEN [call EXCEPT !.exc = "TypeError"]
      ELSE [call EXCEPT !.exc = "", !.val = <<entry.block, 0, len(entry.data), entry.data>>]

\* __init__.py:57-62: the rest of read(block, sync=True) once read_get returned
BaseReadCheck(got, call) ==
    IF got.exc # "" THEN got
    ELSE IF got.val[1].id # call.arg.id THEN [call EXCEPT !.exc = "RuntimeError"]
    ELSE IF got.val[4] = None THEN [call EXCEPT !.exc = "FileNotFoundError"]
    ELSE [call EXCEPT !.exc = "", !.val = got.val[4]]

\* __init__.py:57-62 with null.py:159-163: the blocking get returns
BaseReadReturn ==
    /\ cpc = "base_read"
    /\ read_data_queue # <<>>
    /\ read_data_queue' = Tail(read_data_queue)
    /\ result' = BaseReadCheck(read_get(Head(read_data_queue), result), result)
    /\ cpc' = "idle"
    /\ returned' = Append(returned, Head(read_data_queue).block.id)
    /\ UNCHANGED <<simultaneous_writes, simultaneous_reads, write_queue, read_queue,
                   writer_thread_status, reader_thread_status, fatal_error, wpc, rpc,
                   rblock, rdata, ci, saved, nreads, ncloses, closing, nwput, wjobs, wentry>>

\* null.py:158-159 read_get() is called: it blocks in get() with no timeout
ReadGetCall ==
    /\ cpc = "idle"
    /\ cpc' = "read_get"
    /\ result' = Outcome("read_get", "pending", None, None, "none", Truthy(fatal_error))
    /\ UNCHANGED <<simultaneous_writes, simultaneous_reads, write_queue, read_queue,
                   read_data_queue, writer_thread_status, reader_thread_status,
                   fatal_error, wpc, rpc, rblock, rdata, ci, saved, nreads, ncloses,
                   closing, nwput, returned, wjobs, wentry>>

\* A read_get that takes the newest result instead of the oldest
ReadGetReturnNewest ==
    /\ cpc = "read_get"
    /\ read_data_queue # <<>>
    /\ read_data_queue' = SubSeq(read_data_queue, 1, Len(read_data_queue) - 1)
    /\ result' = read_get(read_data_queue[Len(read_data_queue)], result)
    /\ cpc' = "idle"
    /\ returned' = Append(returned, read_data_queue[Len(read_data_queue)].block.id)
    /\ UNCHANGED <<simultaneous_writes, simultaneous_reads, write_queue, read_queue,
                   writer_thread_status, reader_thread_status, fatal_error, wpc, rpc,
                   rblock, rdata, ci, saved, nreads, ncloses, closing, nwput, wjobs, wentry>>

\* null.py:159-163: a result is available, read_get returns it
ReadGetReturn ==
    /\ cpc = "read_get"
    /\ read_data_queue # <<>>
    /\ read_data_queue' = Tail(read_data_queue)
    /\ result' = read_get(Head(read_data_queue), result)
    /\ cpc' = "idle"
    /\ returned' = Append(returned, Head(read_data_queue).block.id)
    /\ UNCHANGED <<simultaneous_writes, simultaneous_reads, write_queue, read_queue,
                   writer_thread_status, reader_thread_status, fatal_error, wpc, rpc,
                   rblock, rdata, ci, saved, nreads, ncloses, closing, nwput, wjobs, wentry>>

\* __init__.py:65-70 read_get called on the instance: line 69 reads
\* self.last_exception, which nothing defines: AttributeError, nothing dequeued.
BaseReadGet ==
    /\ cpc = "idle"
    /\ result' = Outcome("base_read_get", "AttributeError", None, None, "none",
                         Truthy(fatal_error))
    /\ UNCHANGED <<simultaneous_writes, simultaneous_reads, write_queue, read_queue,
                   read_data_queue, writer_thread_status, reader_thread_status,
                   fatal_error, wpc, rpc, rblock, rdata, cpc, ci, saved, nreads,
                   ncloses, closing, nwput, returned, wjobs, wentry>>

\* The FatalError latch (null.py:32 declares it, lines 75, 99 and 130 read
\* it): set once, to the error of an unrecoverable medium failure.
SetFatalError ==
    /\ fatal_error = None
    /\ fatal_error' = FatalErr
    /\ UNCHANGED <<simultaneous_writes, simultaneous_reads, write_queue, read_queue,
                   read_data_queue, writer_thread_status, reader_thread_status, wpc,
                   rpc, rblock, rdata, cpc, ci, result, saved, nreads, ncloses, closing,
                   nwput, returned, wjobs, wentry>>

\* ------------------------------------------------------------------ close()
\* A thread that an uncaught exception ended, and a thread that has ended
Died(pc) == pc \in {"died_ValueError", "died_MediumError", "died_TypeError"}
Finished(pc) == pc = "finished" \/ Died(pc)

ClosePhases == {"close_put_writers", "close_join_writers", "close_put_readers",
                "close_join_readers"}

\* close() telling the readers to stop before it has joined the writers
CloseAfterReadersEarly(phase) ==
    CASE phase = "close_put_writers" -> "close_put_readers"
      [] phase = "close_put_readers" -> "close_join_writers"
      [] phase = "close_join_writers" -> "close_join_readers"
      [] phase = "close_join_readers" -> "idle"

\* null.py:194-202 (the same statements as __init__.py:122-130): the order of
\* the four loops of close()
CloseAfter(phase) ==
    CASE phase = "close_put_writers" -> "close_join_writers"
      [] phase = "close_join_writers" -> "close_put_readers"
      [] phase = "close_put_readers" -> "close_join_readers"
      [] phase = "close_join_readers" -> "idle"

\* The calling thread's position after one more iteration of the current loop
\* over n threads
CloseStep(n) ==
    IF ci + 1 < n
      THEN /\ ci' = ci + 1
           /\ cpc' = cpc
      ELSE /\ ci' = 0
           /\ cpc' = CloseAfter(cpc)

CloseReturns == cpc = "close_join_readers" /\ cpc' = "idle"

\* null.py:194 close() is called
CloseCall ==
    /\ cpc = "idle"
    /\ closing' = closing + 1
    /\ cpc' = "close_put_writers"
    /\ ci' = 0
    /\ result' = Outcome("close", "pending", None, None, "none", Truthy(fatal_error))
    /\ UNCHANGED <<simultaneous_writes, simultaneous_reads, write_queue, read_queue,
                   read_data_queue, writer_thread_status, reader_thread_status,
                   fatal_error, wpc, rpc, rblock, rdata, saved, nreads, ncloses,
                   nwput, returned, wjobs, wentry>>

\* A close() that sends a sentinel only to a writer that is still running
ClosePutWriterIfAlive ==
    /\ cpc = "close_put_writers"
    /\ IF Finished(wpc[ci])
         THEN UNCHANGED <<write_queue, nwput>>
         ELSE /\ Len(write_queue) < write_queue_length
              /\ write_queue' = Append(write_queue, None)
              /\ nwput' = nwput + 1
    /\ CloseStep(simultaneous_writes)
    /\ UNCHANGED <<simultaneous_writes, simultaneous_reads, read_queue, read_data_queue,
                   writer_thread_status, reader_thread_status, fatal_error, wpc, rpc,
                   rblock, rdata, result, saved, nreads, ncloses, closing,
                   returned, wjobs, wentry>>

\* null.py:195-196: self._write_queue.put(None), blocking while the queue is full
ClosePutWriter ==
    /\ cpc = "close_put_writers"
    /\ Len(write_queue) < write_queue_length
    /\ write_queue' = Append(write_queue, None)
    /\ CloseStep(simultaneous_writes)
    /\ UNCHANGED <<simultaneous_writes, simultaneous_reads, read_queue, read_data_queue,
                   writer_thread_status, reader_thread_status, fatal_error, wpc, rpc,
                   rblock, rdata, result, saved, nreads, ncloses, closing,
                   returned, wjobs, wentry>>
    /\ nwput' = nwput + 1

\* null.py:197-198: _writer_thread.join() returns once that thread has ended
CloseJoinWriter ==
    /\ cpc = "close_join_writers"
    /\ Finished(wpc[ci])
    /\ CloseStep(simultaneous_writes)
    /\ UNCHANGED <<simultaneous_writes, simultaneous_reads, write_queue, read_queue,
                   read_data_queue, writer_thread_status, reader_thread_status,
                   fatal_error, wpc, rpc, rblock, rdata, result, saved, nreads, ncloses,
                   closing, nwput, returned, wjobs, wentry>>

\* null.py:199-200: self._read_queue.put(None); the queue is unbounded
ClosePutReader ==
    /\ cpc = "close_put_readers"
    /\ read_queue' = Append(read_queue, None)
    /\ CloseStep(simultaneous_reads)
    /\ UNCHANGED <<simultaneous_writes, simultaneous_reads, write_queue, read_data_queue,
                   writer_thread_status, reader_thread_status, fatal_error, wpc, rpc,
                   rblock, rdata, result, saved, nreads, ncloses, closing,
                   nwput, returned, wjobs, wentry>>

\* null.py:201-202: _reader_thread.join(); after the last one close() returns
CloseJoinReader ==
    /\ cpc = "close_join_readers"
    /\ Finished(rpc[ci])
    /\ CloseStep(simultaneous_reads)
    /\ ncloses' = IF CloseReturns THEN ncloses + 1 ELSE ncloses
    /\ result' = IF CloseReturns THEN [result EXCEPT !.exc = ""] ELSE result
    /\ UNCHANGED <<simultaneous_writes, simultaneous_reads, write_queue, read_queue,
                   read_data_queue, writer_thread_status, reader_thread_status,
                   fatal_error, wpc, rpc, rblock, rdata, saved, nreads, closing,
                   nwput, returned, wjobs, wentry>>

\* ------------------------------------------------------------ introspection
\* null.py:181-191 thread_status() is not one look at the pools: the format
\* arguments are evaluated from left to right, each list comprehension reads
\* the slots of its dict one after the other, and each qsize() takes and
\* releases the queue's lock, while the threads go on.  The call is a
\* sequence of single reads: three passes over the reader slots (NOTHING,
\* READING, THROTTLING), the read queue's size, three passes over the writer
\* slots (NOTHING, WRITING, THROTTLING), the write queue's size.
ThreadStatusReads == 3 * simultaneous_reads + 1 + 3 * simultaneous_writes + 1

\* The eight numbers of the summary, before anything is counted
ThreadStatusZero ==
    [rN |-> 0, rR |-> 0, rT |-> 0, rQL |-> 0, wN |-> 0, wW |-> 0, wT |-> 0, wQL |-> 0]

\* Whether a worker of each pool had ended when the call was made
PoolsAtCall ==
    [type |-> "pools",
     reader_ended |-> \E r \in Readers : Finished(rpc[r]),
     writer_ended |-> \E w \in Writers : Finished(wpc[w])]

\* One more slot counted: 1 if it holds the status the pass looks for
Hit(status, slot, want) == IF status[slot] = want THEN 1 ELSE 0

\* null.py:183-190: the k-th read of the call (k from 0) added to the numbers
\* counted so far
ThreadStatusRead(k, acc) ==
    LET M == simultaneous_reads
        N == simultaneous_writes
        j == k - (3 * M + 1)
    IN  IF k < M THEN
            [acc EXCEPT !.rN = @ + Hit(reader_thread_status, k, STATUS_NOTHING)]
        ELSE IF k < 2 * M THEN
            [acc EXCEPT !.rR = @ + Hit(reader_thread_status, k - M, STATUS_READING)]
        ELSE IF k < 3 * M THEN
            [acc EXCEPT !.rT = @ + Hit(reader_thread_status, k - 2 * M, STATUS_THROTTLING)]
        ELSE IF k = 3 * M THEN
            [acc EXCEPT !.rQL = Len(read_queue)]
        ELSE IF j < N THEN
            [acc EXCEPT !.wN = @ + Hit(writer_thread_status, j, STATUS_NOTHING)]
        ELSE IF j < 2 * N THEN
            [acc EXCEPT !.wW = @ + Hit(writer_thread_status, j - N, STATUS_WRITING)]
        ELSE IF j < 3 * N THEN
            [acc EXCEPT !.wT = @ + Hit(writer_thread_status, j - 2 * N, STATUS_THROTTLING)]
        ELSE
            [acc EXCEPT !.wQL = Len(write_queue)]

\* null.py:181 thread_status() is called
ThreadStatusCall ==
    /\ cpc = "idle"
    /\ cpc' = "thread_status"
    /\ ci' = 0
    /\ result' = Outcome("thread_status", "pending", ThreadStatusZero, PoolsAtCall, "none",
                         Truthy(fatal_error))
    /\ UNCHANGED <<simultaneous_writes, simultaneous_reads, write_queue, read_queue,
                   read_data_queue, writer_thread_status, reader_thread_status,
                   fatal_error, wpc, rpc, rblock, rdata, saved, nreads, ncloses, closing,
                   nwput, returned, wjobs, wentry>>

\* null.py:183-191: the next read of the call; after the last one the summary
\* is returned
thread_status ==
    /\ cpc = "thread_status"
    /\ LET acc == ThreadStatusRead(ci, result.val) IN
        IF ci + 1 < ThreadStatusReads
          THEN /\ ci' = ci + 1
               /\ cpc' = cpc
               /\ result' = [result EXCEPT !.val = acc]
          ELSE /\ ci' = 0
               /\ cpc' = "idle"
               /\ result' = [result EXCEPT !.val = acc, !.exc = ""]
    /\ UNCHANGED <<simultaneous_writes, simultaneous_reads, write_queue, read_queue,
                   read_data_queue, writer_thread_status, reader_thread_status,
                   fatal_error, wpc, rpc, rblock, rdata, saved, nreads, ncloses, closing,
                   nwput, returned, wjobs, wentry>>

\* null.py:174-178 queue_status(): each ratio is one qsize() of its queue over
\* the queue's maxsize, kept as <<numerator, denominator>>; the two qsize()
\* calls are made one after the other, so each ratio is the value of its own
\* moment.
rq_filled == <<Len(read_data_queue), read_queue_length>>
wq_filled == <<Len(write_queue), write_queue_length>>

\* -------------------------------------------------------------- the system
WriterStep ==
    \E w \in Writers :
        \/ WriterGet(w)
        \/ WriterTest(w)

ReaderStep ==
    \E r \in Readers :
        \/ ReaderGet(r)
        \/ ReaderTest(r)
        \/ ReaderMark(r)
        \/ ReaderReadRaw(r)
        \/ ReaderSleep(r)
        \/ ReaderPut(r)

CloseProgress ==
    \/ ClosePutWriter
    \/ CloseJoinWriter
    \/ ClosePutReader
    \/ CloseJoinReader

CallerStep ==
    \/ \E data \in Payloads, sync \in BOOLEAN :
          (Len(saved) < MaxSaves \/ Truthy(fatal_error)) /\ Save(data, sync)
    \/ \E data \in Payloads : SaveCallback(data)
    \/ \E data \in Payloads : BaseSave(data)
    \/ \E block \in Blocks, sync \in BOOLEAN : nreads < MaxReads /\ Read(block, sync)
    \/ \E block \in Blocks, sync \in BOOLEAN : nreads < MaxReads /\ BaseRead(block, sync)
    \/ BaseReadReturn
    \/ ReadGetCall
    \/ ReadGetReturn
    \/ BaseReadGet
    \/ ThreadStatusCall
    \/ thread_status
    \/ closing < MaxCloses /\ CloseCall
    \/ CloseProgress

Next ==
    \/ WriterStep
    \/ ReaderStep
    \/ CallerStep
    \/ SetFatalError

Spec == Init /\ [][Next]_vars

\* The pipeline and its shutdown alone: asynchronous reads, the latch and
\* close().  The calls left out do not touch the read queue, the write queue
\* or the threads in any other way: save enqueues nothing, the base-class
\* save and read_get raise at once, a synchronous read enqueues as an
\* asynchronous one does, and read_get only takes results off the result
\* queue, which these few reads never fill.  The blocks are read in the order
\* of their ids.
NextShutdown ==
    \/ WriterStep
    \/ ReaderStep
    \/ \E block \in Blocks : block.id = nreads + 1 /\ nreads < MaxReads /\ Read(block, FALSE)
    \/ SetFatalError
    \/ closing < MaxCloses /\ CloseCall
    \/ CloseProgress

SpecShutdown == Init /\ [][NextShutdown]_vars

\* Enough asynchronous reads of one block to fill the bounded result queue,
\* and then close(), with no read_get: the threads are scheduled fairly, and
\* so is the thread that called close().
MaxBulkReads == READ_QUEUE_LENGTH + MaxReaders + 1

NextBulk ==
    \/ WriterStep
    \/ ReaderStep
    \/ nreads < MaxBulkReads /\ Read(Block(1, Uid(0)), FALSE)
    \/ closing < MaxCloses /\ CloseCall
    \/ CloseProgress

Fairness ==
    /\ \A w \in 0..(MaxWriters - 1) :
          /\ WF_vars(w \in Writers /\ WriterGet(w))
          /\ WF_vars(w \in Writers /\ WriterTest(w))
    /\ \A r \in 0..(MaxReaders - 1) :
          /\ WF_vars(r \in Readers /\ ReaderGet(r))
          /\ WF_vars(r \in Readers /\ ReaderTest(r))
          /\ WF_vars(r \in Readers /\ ReaderMark(r))
          /\ WF_vars(r \in Readers /\ ReaderReadRaw(r))
          /\ WF_vars(r \in Readers /\ ReaderSleep(r))
          /\ WF_vars(r \in Readers /\ ReaderPut(r))
    /\ WF_vars(CloseProgress)

FairBulkSpec == Init /\ [][NextBulk]_vars /\ Fairness

\* Reads of one block until the result queue is full, and then close() again
\* and again until the write queue is full of sentinels.  The caller makes a
\* read once a reader has taken the request before it, and none once close()
\* has been called.
MaxBulkCloses == WRITE_QUEUE_LENGTH + MaxWriters + 1

NextQueues ==
    \/ WriterStep
    \/ ReaderStep
    \/ /\ closing = 0
       /\ read_queue = <<>>
       /\ nreads < MaxBulkReads
       /\ Read(Block(1, Uid(0)), FALSE)
    \/ closing < MaxBulkCloses /\ CloseCall
    \/ CloseProgress

SpecQueues == Init /\ [][NextQueues]_vars

\* One save more than the write queue has room for, while no writer runs: the
\* writers wait in get() on a queue that save never fills.
MaxBulkSaves == WRITE_QUEUE_LENGTH + MaxWriters + 1

NextSaves ==
    \/ \E sync \in BOOLEAN : Len(saved) < MaxBulkSaves /\ Save(Bytes("p0", 0), sync)
    \/ \E data \in Payloads : SaveCallback(data)
    \/ \E data \in Payloads : BaseSave(data)
    \/ SetFatalError

SpecSaves == Init /\ [][NextSaves]_vars

\* The read path and close(): the caller reads the blocks 1, 2, ... in this
\* order, calls read_get and closes; the threads run, the medium may fail and
\* the latch may be set.
NextReads ==
    \/ ReaderStep
    \/ \E block \in Blocks : block.id = nreads + 1 /\ nreads < MaxReads /\ Read(block, FALSE)
    \/ ReadGetCall
    \/ ReadGetReturn
    \/ SetFatalError
    \/ WriterStep
    \/ closing < MaxCloses /\ CloseCall
    \/ CloseProgress

SpecReads == Init /\ [][NextReads]_vars

\* The same under fair scheduling of the threads; the calling thread goes on
\* as soon as its blocking get() has something to return.
FairSpecReads == SpecReads /\ Fairness /\ WF_vars(ReadGetReturn)

\* ------------------------------------------------------------------ claims
\* C1: a synchronous read issued while a read for a block of another id is
\* outstanding raises the protocol violation (RuntimeError), and a synchronous
\* read that returns, returns the data read for the block it was called with.
C1_MixedSyncReadRaisesProtocolViolation ==
    result.op = "read_sync" =>
        /\ result.others = "other_id" => result.exc = "RuntimeError"
        /\ result.exc = "" => result.val = generate_block(result.arg.id)

\* C2: round trip: a synchronous read, made with no other read outstanding, of
\* a block carrying a uid that save returned, returns the bytes given to that
\* save.
C2_RoundTrip ==
    (result.op = "read_sync" /\ result.others = "none" /\ result.arg.uid # Uid(0)) =>
        /\ result.exc = ""
        /\ result.val = saved[result.arg.uid.n]

\* C3: when the medium has no data for a block's uid, the reader neither dies
\* nor drops the block: it goes on to push (block, None) to the result queue;
\* read_get returns such a result as (block, 0, absent data) without raising;
\* and a synchronous read of a block whose uid was never written fails with
\* FileNotFoundError.
C3_NotFound ==
    /\ \A r \in Readers : rdata[r] = MediumAbsent => rpc[r] \in {"sleep", "put"}
    /\ (result.op = "read_get" /\ result.exc \notin {"", "pending"}) => result.latched
    /\ (result.op = "read_sync" /\ result.arg.uid = Uid(0)) => result.exc = "FileNotFoundError"

\* C4: the latch, once set, stays set; a save or read_get call made while it
\* is set raises the latched error, and such a read_get takes nothing off the
\* result queue.
C4_LatchFailsFast ==
    [][ /\ Truthy(fatal_error) => fatal_error' = fatal_error
        /\ (result'.latched /\ result'.op \in {"save", "read_get"} /\ result'.exc # "pending")
              => result'.exc = FatalErr.name
        /\ (result.latched /\ cpc = "read_get")
              => Len(read_data_queue') >= Len(read_data_queue) ]_vars

\* C5: a worker that has terminated because the medium's primitive failed has
\* set the latch.
C5_WorkerFailureSetsLatch ==
    /\ \A r \in Readers : rpc[r] = "died_MediumError" => Truthy(fatal_error)
    /\ \A w \in Writers : wpc[w] = "died_MediumError" => Truthy(fatal_error)

\* C6 as claimed: while close() has not been called, no worker has left its
\* loop through the break of line 77 or 101 (only a worker that failed has ended).
C6_OthersRunUntilClose ==
    closing = 0 =>
        /\ \A r \in Readers : rpc[r] # "finished"
        /\ \A w \in Writers : wpc[w] # "finished"

\* C6 as amended: a worker reaches the test of lines 75 and 99 only by taking
\* an entry off its queue; it leaves its loop only at that test, and only if
\* the entry is the stop sentinel or the latch is set; and a worker that makes
\* the test while the latch is set leaves its loop, whatever the entry,
\* without processing it.
C6_WorkersExitAtNextDequeue ==
    [][ /\ \A r \in Readers :
            /\ (rpc[r] # "test" /\ rpc'[r] = "test") =>
                  /\ rpc[r] = "get"
                  /\ read_queue # <<>>
                  /\ read_queue' = Tail(read_queue)
                  /\ rblock'[r] = Head(read_queue)
            /\ (rpc[r] # "finished" /\ rpc'[r] = "finished") =>
                  /\ rpc[r] = "test"
                  /\ rblock[r] = None \/ fatal_error # None
            /\ (rpc[r] = "test" /\ rpc'[r] # "test" /\ fatal_error # None) =>
                  /\ rpc'[r] = "finished"
                  /\ read_data_queue' = read_data_queue
        /\ \A w \in Writers :
            /\ (wpc[w] # "test" /\ wpc'[w] = "test") =>
                  /\ wpc[w] = "get"
                  /\ write_queue # <<>>
                  /\ write_queue' = Tail(write_queue)
                  /\ wentry'[w] = Head(write_queue)
            /\ (wpc[w] # "finished" /\ wpc'[w] = "finished") =>
                  /\ wpc[w] = "test"
                  /\ wentry[w] = None \/ fatal_error # None
            /\ (wpc[w] = "test" /\ wpc'[w] # "test" /\ fatal_error # None) =>
                  wpc'[w] = "finished" ]_vars

\* C6 witness: the latch is set, close() has not been called, and a reader
\* has left its loop on taking a block (not a sentinel) off the read queue.
C6_Witness ==
    /\ closing = 0
    /\ fatal_error # None
    /\ \E r \in Readers : rpc[r] = "finished" /\ rblock[r].type = "Block"
    /\ \E r \in Readers : rpc[r] = "get"

\* C7: while close() has not been called, a thread_status() made after a
\* worker of a pool has exited reports fewer workers in that pool's Idle,
\* Reading/Writing and Throttled buckets together than the pool has threads.
C7_ExitedWorkerNotCounted ==
    (result.op = "thread_status" /\ result.exc = "" /\ closing = 0) =>
        /\ result.arg.reader_ended
              => result.val.rN + result.val.rR + result.val.rT < simultaneous_reads
        /\ result.arg.writer_ended
              => result.val.wN + result.val.wW + result.val.wT < simultaneous_writes

\* C8: once close() has returned, every writer and reader thread has
\* terminated, every status slot is NOTHING and a thread_status() made then
\* counts no Reading, Writing or Throttled worker.
C8_AfterCloseAllIdle ==
    ncloses >= 1 =>
        /\ \A w \in Writers : Finished(wpc[w])
        /\ \A r \in Readers : Finished(rpc[r])
        /\ \A w \in Writers : writer_thread_status[w] = STATUS_NOTHING
        /\ \A r \in Readers : reader_thread_status[r] = STATUS_NOTHING
        /\ (result.op = "thread_status" /\ result.exc = "") =>
              /\ result.val.rR = 0 /\ result.val.rT = 0
              /\ result.val.wW = 0 /\ result.val.wT = 0

\* C9: a close() that has been called returns.
C9_CloseReturns == (cpc \in ClosePhases) ~> (cpc = "idle")

\* C10: a step that puts a stop sentinel on the read queue is taken only when
\* this close() has put all its writer sentinels and every writer thread has
\* ended; and a reader that stops on a sentinel does so only when every writer
\* thread has ended.
C10_WritersStoppedBeforeReaders ==
    [][ /\ (Len(read_queue') > Len(read_queue) /\ read_queue'[Len(read_queue')] = None) =>
              /\ nwput = closing * simultaneous_writes
              /\ \A w \in Writers : Finished(wpc[w])
        /\ \A r \in Readers :
              (rpc[r] = "test" /\ rpc'[r] = "finished" /\ rblock[r] = None) =>
                  \A w \in Writers : Finished(wpc[w]) ]_vars

\* C10 witness: close() has put its first reader sentinel while a reader is
\* still running.
C10_Witness ==
    /\ cpc \in {"close_put_readers", "close_join_readers"}
    /\ \E i \in 1..Len(read_queue) : read_queue[i] = None
    /\ \E r \in Readers : ~Finished(rpc[r])

\* C11: the write queue never holds more than simultaneous_writes + 20
\* entries and the result queue never more than simultaneous_reads + 20,
\* sentinels included, and both ratios of queue_status lie in [0, 1].
C11_QueuesBounded ==
    /\ Len(write_queue) <= simultaneous_writes + 20
    /\ Len(read_data_queue) <= simultaneous_reads + 20
    /\ \A ratio \in {rq_filled, wq_filled} :
          ratio[2] > 0 /\ 0 <= ratio[1] /\ ratio[1] <= ratio[2]

\* both queues are full: both ratios are 1
C11_Witness ==
    /\ Len(write_queue) = simultaneous_writes + 20
    /\ Len(read_data_queue) = simultaneous_reads + 20
    /\ rq_filled[1] = rq_filled[2]
    /\ wq_filled[1] = wq_filled[2]

\* C12: backpressure: while every writer is paused and no failure is latched,
\* at most as many save calls return as the write queue has room for
\* (simultaneous_writes + 20); the next save blocks.
C12_SaveBlocksWhenQueueFull ==
    ((\A w \in Writers : wpc[w] = "get") /\ ~Truthy(fatal_error))
        => Len(saved) <= write_queue_length

\* C13: a synchronous save that returned a uid had its WriteJob enqueued,
\* dequeued by a writer and marked drained before it returned.
C13_SyncSaveWaitsForDrain ==
    (result.op = "save" /\ result.exc = "" /\ result.arg.val)
        => (result.val.n \in DOMAIN wjobs /\ wjobs[result.val.n] = "drained")

\* C14: read_get never blocks indefinitely: a call of read_get always comes
\* back to its caller, with a result or with a failure (Timeout when no
\* result arrives).
C14_ReadGetComesBack == (cpc = "read_get") ~> (cpc = "idle")

\* Where the read requests are.  A request is pending while it is on the read
\* queue (sentinels aside), in flight while a running reader holds it
\* (null.py:98-109), queued as a result on the result queue, returned once
\* read_get took its result; a reader that ended (it left its loop on the
\* latch at line 99, or an exception ended it) keeps the block it had
\* dequeued.
RequestsPending == Cardinality({i \in 1..Len(read_queue) : read_queue[i] # None})
RequestsInFlight == Cardinality({r \in Readers : Holding(r)})
ResultsQueued == Len(read_data_queue)
ResultsReturned == Len(returned)
RequestsLost ==
    Cardinality({r \in Readers : Finished(rpc[r]) /\ rblock[r].type = "Block"})

\* The number of places that hold the request for the block with this id
Holders(id) ==
    Cardinality({i \in 1..Len(read_queue) : read_queue[i] # None /\ read_queue[i].id = id})
    + Cardinality({r \in Readers : rblock[r].type = "Block" /\ rblock[r].id = id})
    + Cardinality({i \in 1..Len(read_data_queue) : read_data_queue[i].block.id = id})
    + Cardinality({i \in 1..Len(returned) : returned[i] = id})

\* C15 as stated: the read requests submitted are the results returned by
\* read_get, the results queued, and the requests pending or in flight.
C15_ReadsAccountedFor ==
    nreads = ResultsReturned + ResultsQueued + RequestsPending + RequestsInFlight

\* C15, amended: every submitted block is in exactly one place (pending, held
\* by one reader, queued as a result, or returned), so the requests submitted
\* are those returned, queued, pending, in flight, or lost with a reader that
\* ended while it held them.
C15_ReadsAccountedForOrLost ==
    /\ \A id \in BlockIds : Holders(id) = IF id <= nreads THEN 1 ELSE 0
    /\ nreads = ResultsReturned + ResultsQueued + RequestsPending + RequestsInFlight
                   + RequestsLost

\* read_get returned one block, and a reader that left its loop on the latch
\* holds another
C15_Witness ==
    /\ ResultsReturned > 0
    /\ \E r \in Readers : rpc[r] = "finished" /\ rblock[r].type = "Block"

\* C16: a save call made with a completion callback while no failure is
\* latched is accepted and returns the uid that a writer then invokes the
\* callback with, exactly once, for the job it enqueued.
C16_SaveWithCallbackReturnsUid ==
    (result.op = "save_callback" /\ ~result.latched)
        => (result.exc = "" /\ result.val.type = "uid" /\ result.val.n \in DOMAIN wjobs)

\* no failure: the latch is not set and no reader was ended by an exception
NoFailure == ~Truthy(fatal_error) /\ \A r \in Readers : ~Died(rpc[r])

\* C17: with exactly one reader and no failure, successive read_get calls
\* return the blocks in exactly the order read was called (the caller reads
\* the blocks 1, 2, ... in this order); with two or more readers the order
\* can be reversed (C17_Reordered is reachable).
C17_OneReaderKeepsOrder ==
    (simultaneous_reads = 1 /\ NoFailure)
        => \A i \in 1..Len(returned) : returned[i] = i

\* two readers or more, no failure: block 1 was read before block 2 and
\* read_get returned block 2 before block 1
C17_Reordered ==
    /\ simultaneous_reads >= 2
    /\ NoFailure
    /\ Len(returned) >= 2
    /\ returned[1] = 2
    /\ returned[2] = 1

\* Stop sentinels on the read queue, and the readers that left their loop on
\* a sentinel (null.py:98-101 with block = None)
ReadSentinels == Cardinality({i \in 1..Len(read_queue) : read_queue[i] = None})
ReadersStoppedBySentinel ==
    Cardinality({r \in Readers : rpc[r] = "finished" /\ rblock[r] = None})

\* The state close() leaves when it has returned for the second time or more
C18_AfterRepeatedClose ==
    (cpc = "idle" /\ ncloses >= 2) =>
        /\ \A w \in Writers : Finished(wpc[w])
        /\ \A r \in Readers : Finished(rpc[r])
        /\ Len(write_queue) = (ncloses - 1) * simultaneous_writes
        /\ \A i \in 1..Len(write_queue) : write_queue[i] = None
        /\ ReadSentinels = ncloses * simultaneous_reads - ReadersStoppedBySentinel
        /\ ReadSentinels >= (ncloses - 1) * simultaneous_reads
        /\ (RequestsPending = 0 /\ ReadersStoppedBySentinel = simultaneous_reads)
              => Len(read_queue) = (ncloses - 1) * simultaneous_reads

\* Once close() has returned, no step takes an entry off the write queue or
\* the read queue
C18_NothingConsumedAfterClose ==
    ncloses >= 1 =>
        /\ Len(write_queue') >= Len(write_queue)
        /\ Len(read_queue') >= Len(read_queue)

\* C18: close() is not idempotent: every close() after the first has returned
\* puts simultaneous_writes further sentinels on the write queue and
\* simultaneous_reads on the read queue, which no worker ever consumes: every
\* worker has ended, the queues never shrink again, and after the second
\* close() the write queue holds simultaneous_writes sentinels and the read
\* queue simultaneous_reads (when it was empty before).
C18_CloseNotIdempotent == []C18_AfterRepeatedClose /\ [][C18_NothingConsumedAfterClose]_vars

\* the second close() has returned on queues that the first had left empty
C18_Witness ==
    /\ cpc = "idle"
    /\ ncloses = 2
    /\ Len(write_queue) = simultaneous_writes
    /\ Len(read_queue) = simultaneous_reads
    /\ ReadSentinels = simultaneous_reads

\* C19: graceful drain: when no failure is latched and a single close() has
\* returned, every block enqueued before it was read by a reader, each reader
\* consumed exactly one sentinel, and the write queue and the read queue are
\* both empty.
C19_GracefulDrain ==
    (result.op = "close" /\ result.exc = "" /\ ncloses = 1 /\ ~Truthy(fatal_error))
        => /\ write_queue = <<>>
           /\ read_queue = <<>>
           /\ ReadersStoppedBySentinel = simultaneous_reads

\* C20: no accepted save is silently dropped: the job of every save that
\* returned a uid is on its way to a writer, written, or the latch is set.
C20_NoSaveDropped ==
    \A u \in 1..Len(saved) : Truthy(fatal_error) \/ u \in DOMAIN wjobs
====
